---- MODULE Spec2Model ----
(***************************************************************************)
(* A model of scripts/ctg.js (Combat Tracker Groups): the grouping of the  *)
(* combat's turns (Ctg.groups), the comparator (Ctg.sortCombatants) and    *)
(* the preUpdateCombat handler that skips over groups (groupSkipping).     *)
(*                                                                         *)
(* JavaScript values are records [t, b, n, s]: t is the value's kind, b a  *)
(* boolean's value, n a number's value, and s a string's text, or the id   *)
(* of an object (of an array: the id of its first element), "" when the    *)
(* object has no id.                                                       *)
(***************************************************************************)
EXTENDS Integers, Sequences, FiniteSets, TLC

VARIABLES
    turns,          \* game.combat.turns (document.turns): the combatants in turn order
    settings,       \* game.settings of the module: mode, sortCombatants, noGroupHidden, noGroupPCs, groupSkipping
    modes,          \* Ctg.MODES: the configured <<key, path>> pairs
    isGM,           \* game.user.isGM
    matActive,      \* game.modules.get("mob-attack-tool")?.active
    hiddenMobList,  \* the mobs of mob-attack-tool: each a list of token ids
    turn,           \* document.turn, the combat's current turn
    round,          \* document.round, the combat's current round
    cmp,            \* the last pair of sortCombatants calls and what they returned
    ret,            \* what the last call of Ctg.groups returned or threw
    errors,         \* ui.notifications.error messages of the last Ctg.groups call
    warnings,       \* console.warn messages of the last Ctg.groups call (one per id)
    change,         \* the change object of the last preUpdateCombat, after the handler
    rolls           \* the last group initiative roll: its context, ids and callbacks

vars == <<turns, settings, modes, isGM, matActive, hiddenMobList, turn, round,
          cmp, ret, errors, warnings, change, rolls>>

-----------------------------------------------------------------------------
(* Bounds of the model *)

\* initiatives and numeric values range over 0 .. MaxInitiative
MaxInitiative == 2

\* the mobs of mob-attack-tool: at most MaxMobs, of at most MaxMobSize token ids
MaxMobs == 2

MaxMobSize == 2

\* rounds range over 0 .. MaxRound
MaxRound == 1

\* the combatants of the long combat
MaxTurns == 11

-----------------------------------------------------------------------------
(* JavaScript values *)

Undefined == [t |-> "undefined", b |-> FALSE, n |-> 0, s |-> ""]
Null      == [t |-> "null", b |-> FALSE, n |-> 0, s |-> ""]
Bool(x)   == [t |-> "boolean", b |-> x, n |-> 0, s |-> ""]
Num(x)    == [t |-> "number", b |-> FALSE, n |-> x, s |-> ""]
Str(x)    == [t |-> "string", b |-> FALSE, n |-> 0, s |-> x]
Obj(id)   == [t |-> "object", b |-> FALSE, n |-> 0, s |-> id]
Arr(id)   == [t |-> "array", b |-> FALSE, n |-> 0, s |-> id]

\* typeof v
TypeOf(v) ==
    IF v.t \in {"null", "object", "array"} THEN "object" ELSE v.t

\* The strings of the model, in the order of String.prototype.localeCompare
\* (digits before letters, letters without regard to case first).
LocaleOrder ==
    << "1", "10", "aZ3kLp9QmN21xTy8", "constructor", "Goblin", "Orc",
       "Qm7RtY2pLs9DfG4h", "undefined" >>

\* The strings that are the decimal notation of a number, with that number.
NumericStrings == { <<"1", 1>>, <<"10", 10>> }

\* The strings with sixteen alphanumeric characters in a row.
IdStrings == { "aZ3kLp9QmN21xTy8", "Qm7RtY2pLs9DfG4h" }

\* Ids (of combatants, of objects) in the order of the operator > on strings.
CodeUnitOrder ==
    << "a", "b", "c", "d", "e", "f", "g", "h", "i", "j", "k", "l", "m", "x", "y" >>

PositionIn(seq, x) == CHOOSE i \in 1..Len(seq) : seq[i] = x

\* s > t on two strings of CodeUnitOrder
StrGreater(s, t) == PositionIn(CodeUnitOrder, s) > PositionIn(CodeUnitOrder, t)

\* +v (a number; IsNaN tells when there is none)
IsNaN(v) ==
    CASE v.t \in {"undefined", "object", "array"} -> TRUE
      [] v.t = "string" -> v.s # "" /\ ~ \E p \in NumericStrings : p[1] = v.s
      [] OTHER -> FALSE

ToNumber(v) ==
    CASE v.t = "boolean" -> IF v.b THEN 1 ELSE 0
      [] v.t = "number" -> v.n
      [] v.t = "string" /\ v.s # "" -> (CHOOSE p \in NumericStrings : p[1] = v.s)[2]
      [] OTHER -> 0

\* Number.isNumeric(v): not an array, not null, not "", and +v === +v
IsNumeric(v) ==
    /\ v.t # "array"
    /\ v.t # "null"
    /\ ~ (v.t = "string" /\ v.s = "")
    /\ ~ IsNaN(v)

\* /[A-Za-z0-9]{16}/.test(s)
MatchesIdPattern(s) == s \in IdStrings

\* s.localeCompare(t): -1, 0 or 1
LocaleCompare(s, t) ==
    LET i == PositionIn(LocaleOrder, s)
        j == PositionIn(LocaleOrder, t)
    IN  IF i < j THEN -1 ELSE IF i > j THEN 1 ELSE 0

\* x?.id > y?.id on two values of typeof "object": false when either has no id
ObjIdGreater(x, y) ==
    /\ x.t # "null" /\ y.t # "null"
    /\ x.s # "" /\ y.s # ""
    /\ StrGreater(x.s, y.s)

\* a?.initiative > b?.initiative: null counts as 0, undefined compares false
InitiativeGreater(a, b) ==
    /\ ~ IsNaN(a.initiative) /\ ~ IsNaN(b.initiative)
    /\ ToNumber(a.initiative) > ToNumber(b.initiative)

\* a?.id > b?.id: false when either combatant is undefined
IdGreater(a, b) == a.id # "" /\ b.id # "" /\ StrGreater(a.id, b.id)

-----------------------------------------------------------------------------
(* Settings and paths *)

ModeKeys == { modes[i][1] : i \in 1..Len(modes) }

\* Ctg.MODES.find(m => m[0] === mode).slice(-1)[0]
PathOf(mode) == modes[CHOOSE i \in 1..Len(modes) : modes[i][1] = mode][2]

\* The undefined that stands where a combatant is expected (group[0] of an empty group)
NoCombatant ==
    [id |-> "", tokenId |-> "", visible |-> FALSE, hidden |-> FALSE,
     hasPlayerOwner |-> FALSE, initiative |-> Undefined, val |-> Undefined]

\* recursiveGetPropertyAsString(combatant, path)
recursiveGetPropertyAsString(c, path) ==
    CASE path = "initiative" -> c.initiative
      [] path = "val" -> c.val
      [] OTHER -> Undefined

\* game.combat.turns.indexOf(c), from 0
IndexOfTurn(c) ==
    IF \E i \in 1..Len(turns) : turns[i] = c
    THEN (CHOOSE i \in 1..Len(turns) : turns[i] = c /\ \A j \in 1..(i-1) : turns[j] # c) - 1
    ELSE -1

-----------------------------------------------------------------------------
(* Ctg.sortCombatants *)

\* what sortCombatants returns when it throws (the active mode is not configured)
Thrown == 99

sortCombatants(a, b) ==
    IF settings.sortCombatants
    THEN IF settings.mode \notin ModeKeys THEN Thrown ELSE
         LET path == PathOf(settings.mode)
             ia == recursiveGetPropertyAsString(a, path)
             ib == recursiveGetPropertyAsString(b, path)
         IN  IF TypeOf(ia) = "boolean" /\ TypeOf(ib) = "boolean"
             THEN IF ia.b THEN 1 ELSE -1
             ELSE IF IsNumeric(ia) /\ IsNumeric(ib)
             THEN LET ci == ToNumber(ib) - ToNumber(ia)
                  IN  IF ci # 0
                      THEN (IF ci # 0 THEN 1 ELSE -1)
                      ELSE IF IdGreater(a, b) THEN 1 ELSE -1
             ELSE IF TypeOf(ia) = "object" /\ TypeOf(ib) = "object"
             THEN IF ObjIdGreater(ia, ib) THEN 1 ELSE -1
             ELSE IF TypeOf(ia) = "string" /\ TypeOf(ib) = "string"
             THEN IF MatchesIdPattern(ia.s) /\ MatchesIdPattern(ib.s)
                  THEN IF InitiativeGreater(a, b) THEN 1 ELSE -1
                  ELSE LocaleCompare(ib.s, ia.s)
             ELSE IF IdGreater(a, b) THEN 1 ELSE -1
    ELSE IF IndexOfTurn(a) > IndexOfTurn(b) THEN 1 ELSE -1

-----------------------------------------------------------------------------
(* Array.prototype.sort *)

Sign(x) == IF x < 0 THEN -1 ELSE IF x > 0 THEN 1 ELSE 0

\* A consistent comparator on the elements of a sequence, as Array.prototype.sort
\* requires (the order of the result is implementation-defined otherwise); c[i][j]
\* is what the comparator returns for the elements at i and j
Consistent(c) ==
    LET D == DOMAIN c IN
    /\ \A i, j \in D : i # j => Sign(c[i][j]) = - Sign(c[j][i])
    /\ \A i, j, k \in D :
          (i # j /\ j # k /\ i # k /\ c[i][j] <= 0 /\ c[j][k] <= 0) => c[i][k] <= 0

\* How many elements a stable sort places before the element at i
Rank(c, i) ==
    Cardinality({ j \in DOMAIN c :
                    j # i /\ (c[j][i] < 0 \/ (c[j][i] = 0 /\ j < i)) })

\* The order a stable sort leaves under a consistent comparator: the place of
\* each element of the result in the array sorted
StableOrder(c) == [k \in DOMAIN c |-> CHOOSE i \in DOMAIN c : Rank(c, i) = k - 1]

\* The arrays seq.sort(comparator) may leave: the stable sorted one under a
\* consistent comparator, any permutation of the elements under another
SortOutcomes(seq, c) ==
    LET n == Len(seq)
    IN  IF n <= 1 THEN { seq }
        ELSE LET ps == IF Consistent(c) THEN { StableOrder(c) } ELSE Permutations(1..n)
             IN  { [i \in 1..n |-> seq[p[i]]] : p \in ps }

\* What sortCombatants returns for each two elements of a group
CombatantOrder(group) ==
    [i \in 1..Len(group) |-> [j \in 1..Len(group) |-> sortCombatants(group[i], group[j])]]

\* Whether seq.sort(sortCombatants) throws: the comparator is called once there
\* are two elements, and throws when the active mode has no entry in Ctg.MODES.
SortThrows(seq) ==
    Len(seq) >= 2 /\ settings.sortCombatants /\ settings.mode \notin ModeKeys

First(group) == IF Len(group) = 0 THEN NoCombatant ELSE group[1]

\* (a, b) => this.sortCombatants(a[0], b[0]), for each two of the groups
GroupOrder(gs) ==
    [i \in 1..Len(gs) |-> [j \in 1..Len(gs) |-> sortCombatants(First(gs[i]), First(gs[j]))]]

\* The sets of sequences <<x1, ..., xn>> with xi in sets[i]
RECURSIVE Product(_)
Product(sets) ==
    IF Len(sets) = 0 THEN { <<>> }
    ELSE { <<x>> \o rest : x \in sets[1], rest \in Product(Tail(sets)) }

\* groups.forEach(group => group.sort(this.sortCombatants));
\* groups.sort((a, b) => this.sortCombatants(a[0], b[0])); return groups
SortedGroups(groups) ==
    IF SortThrows(groups) \/ \E i \in 1..Len(groups) : SortThrows(groups[i])
    THEN { [status |-> "threw", groups |-> <<>>] }
    ELSE LET inner == Product([i \in 1..Len(groups) |->
                                 SortOutcomes(groups[i], CombatantOrder(groups[i]))])
         IN  { [status |-> "ok", groups |-> gs] :
                 gs \in UNION { SortOutcomes(g, GroupOrder(g)) : g \in inner } }

-----------------------------------------------------------------------------
(* Ctg.groups *)

\* The property key a value becomes in accumulator[value]
ToPropertyKey(v) ==
    CASE v.t = "undefined" -> "undefined"
      [] v.t = "null" -> "null"
      [] v.t = "boolean" -> IF v.b THEN "true" ELSE "false"
      [] v.t = "number" -> ToString(v.n)
      [] v.t = "string" -> v.s
      [] v.t = "object" -> "[object Object]"
      [] v.t = "array" -> IF v.s = "" THEN "" ELSE "[object Object]"

\* The array index a value's key is (such keys are enumerated first, in
\* ascending order), or -1 when the key is no array index
ArrayIndexOf(v) ==
    IF v.t \in {"number", "string"} /\ ~ IsNaN(v) /\ ~ (v.t = "string" /\ v.s = "")
    THEN ToNumber(v) ELSE -1

\* The properties the accumulator {} inherits from Object.prototype: each is
\* truthy and not iterable, so [...accumulator[key] || [], current] throws.
ObjectPrototypeKeys ==
    { "constructor", "__proto__", "hasOwnProperty", "isPrototypeOf",
      "propertyIsEnumerable", "toLocaleString", "toString", "valueOf",
      "__defineGetter__", "__defineSetter__", "__lookupGetter__", "__lookupSetter__" }

\* The condition under which the reducer groups the combatant (lines 179-181)
IsGrouped(c) ==
    /\ c.visible
    /\ ~ (settings.noGroupHidden /\ c.hidden)
    /\ ~ (settings.noGroupPCs /\ c.hasPlayerOwner)

\* The reducer of game.combat.turns: the accumulator's own properties as a
\* sequence of [key, index, members] in the order they were created
RECURSIVE Reduce(_, _, _)
Reduce(i, acc, path) ==
    IF i > Len(turns) \/ acc.threw THEN acc
    ELSE LET current == turns[i]
             v == recursiveGetPropertyAsString(current, path)
             key == ToPropertyKey(v)
             at == { k \in 1..Len(acc.props) : acc.props[k].key = key }
         IN  IF ~ IsGrouped(current) THEN Reduce(i + 1, acc, path)
             ELSE IF at = {} /\ key \in ObjectPrototypeKeys
             THEN [acc EXCEPT !.threw = TRUE]
             ELSE IF at = {}
             THEN Reduce(i + 1,
                         [acc EXCEPT !.props = Append(@, [key |-> key, index |-> ArrayIndexOf(v),
                                                          members |-> <<current>>])],
                         path)
             ELSE LET k == CHOOSE k \in at : TRUE
                  IN  Reduce(i + 1,
                             [acc EXCEPT !.props[k].members = Append(@, current)],
                             path)

\* The properties among props that are array indices, in ascending order
RECURSIVE IndexProps(_)
IndexProps(props) ==
    LET I == { k \in 1..Len(props) : props[k].index >= 0 }
    IN  IF I = {} THEN <<>>
        ELSE LET k == CHOOSE k \in I : \A l \in I : props[k].index <= props[l].index
             IN  <<props[k]>> \o IndexProps([j \in 1..(Len(props) - 1) |->
                                                   IF j < k THEN props[j] ELSE props[j + 1]])

IsNamedProp(p) == p.index < 0

\* Object.values(accumulator): the array indices ascending, then the other keys
\* in the order of their creation
ObjectValues(props) ==
    LET ordered == IndexProps(props) \o SelectSeq(props, IsNamedProp)
    IN  [k \in 1..Len(ordered) |-> ordered[k].members]

\* canvas.scene?.tokens.get(id)?.combatant
TokenCombatant(id) ==
    IF \E i \in 1..Len(turns) : turns[i].tokenId = id
    THEN turns[CHOOSE i \in 1..Len(turns) : turns[i].tokenId = id]
    ELSE NoCombatant

\* A filter that keeps every id, also one already in a mob
RECURSIVE FilterMobKeepsAll(_, _)
FilterMobKeepsAll(ids, st) ==
    IF Len(ids) = 0 THEN st
    ELSE LET id == Head(ids)
             already == \E k \in 1..Len(st.alreadyInMob) : st.alreadyInMob[k] = id
         IN  FilterMobKeepsAll(Tail(ids),
                       [kept |-> Append(st.kept, id),
                        warned |-> IF already THEN Append(st.warned, id) ELSE st.warned,
                        alreadyInMob |-> Append(st.alreadyInMob, id)])

\* The filter of one mob's selectedTokenIds (lines 164-169): the ids kept, the
\* ids warned about, and alreadyInMob afterwards
RECURSIVE FilterMob(_, _)
FilterMob(ids, st) ==
    IF Len(ids) = 0 THEN st
    ELSE LET id == Head(ids)
             already == \E k \in 1..Len(st.alreadyInMob) : st.alreadyInMob[k] = id
         IN  FilterMob(Tail(ids),
                       [kept |-> IF already THEN st.kept ELSE Append(st.kept, id),
                        warned |-> IF already THEN Append(st.warned, id) ELSE st.warned,
                        alreadyInMob |-> Append(st.alreadyInMob, id)])

\* (a, b) => game.combat?.turns.indexOf(a) - game.combat?.turns.indexOf(b), for
\* each two of the combatants
sortByTurns(cs) ==
    [i \in 1..Len(cs) |-> [j \in 1..Len(cs) |-> IndexOfTurn(cs[i]) - IndexOfTurn(cs[j])]]

HasCombatant(c) == c # NoCombatant

\* One mob's group: the combatants of the ids kept, sorted by their turn (sort
\* moves undefined to the end without comparing it), without the undefined
MobGroup(kept) ==
    LET cs == SelectSeq([k \in 1..Len(kept) |-> TokenCombatant(kept[k])], HasCombatant)
    IN  CHOOSE g \in SortOutcomes(cs, sortByTurns(cs)) : TRUE

\* The map over the mobs (lines 162-171)
RECURSIVE MobGroups(_, _, _, _)
MobGroups(mobs, alreadyInMob, groups, warned) ==
    IF Len(mobs) = 0 THEN [groups |-> groups, warned |-> warned]
    ELSE LET st == FilterMob(Head(mobs), [kept |-> <<>>, warned |-> <<>>,
                                          alreadyInMob |-> alreadyInMob])
         IN  MobGroups(Tail(mobs), st.alreadyInMob,
                       Append(groups, MobGroup(st.kept)), warned \o st.warned)

Ids(group) == [k \in 1..Len(group) |-> group[k].id]

GroupIds(groups) == [g \in 1..Len(groups) |-> Ids(groups[g])]

\* Ctg.groups past the check of the mode (lines 156-194): the mob branch or
\* the reducer, then the two sorts
groupsOfMode(mode) ==
    IF mode = "mob" /\ matActive
    THEN LET m == MobGroups(hiddenMobList, <<>>, <<>>, <<>>)
         IN  { [status |-> r.status, groups |-> GroupIds(r.groups), errors |-> 0,
                warned |-> m.warned, read |-> TRUE] : r \in SortedGroups(m.groups) }
    ELSE LET acc == Reduce(1, [threw |-> FALSE, props |-> <<>>], PathOf(mode))
         IN  IF acc.threw
             THEN { [status |-> "threw", groups |-> <<>>, errors |-> 0, warned |-> <<>>,
                     read |-> TRUE] }
             ELSE { [status |-> r.status, groups |-> GroupIds(r.groups), errors |-> 0,
                     warned |-> <<>>, read |-> TRUE] :
                        r \in SortedGroups(ObjectValues(acc.props)) }

\* A Ctg.groups that returns an empty list for a mode that is not configured,
\* without the notification
groupsSilentOnInvalid(mode) ==
    IF mode \notin ModeKeys
    THEN { [status |-> "ok", groups |-> <<>>, errors |-> 0, warned |-> <<>>,
            read |-> FALSE] }
    ELSE groupsOfMode(mode)

\* Ctg.groups(mode): the outcomes the call may have. status is "invalid" (the
\* error notification and the return of undefined), "threw" or "ok"; groups holds
\* the ids of each group; read tells whether the combatants were read.
groups(mode) ==
    IF mode \notin ModeKeys
    THEN { [status |-> "invalid", groups |-> <<>>, errors |-> 1, warned |-> <<>>,
            read |-> FALSE] }
    ELSE groupsOfMode(mode)

-----------------------------------------------------------------------------
(* The preUpdateCombat handler of groupSkipping *)

\* null, where a turn or a round is expected
None == -1

\* The characters of String(n), as numbers in the order of their code units
\* ("-" comes before the digits)
Decimal(n) ==
    IF n < 0 THEN << -1 >> \o (IF -n < 10 THEN << -n >> ELSE << (-n) \div 10, (-n) % 10 >>)
    ELSE IF n < 10 THEN << n >> ELSE << n \div 10, n % 10 >>

\* String(x) < String(y), the order of Array.prototype.sort without a comparator
DefaultLess(x, y) ==
    LET dx == Decimal(x)
        dy == Decimal(y)
        m == IF Len(dx) < Len(dy) THEN Len(dx) ELSE Len(dy)
        diff == { k \in 1..m : dx[k] # dy[k] }
    IN  IF diff = {} THEN Len(dx) < Len(dy)
        ELSE LET k == CHOOSE k \in diff : \A l \in diff : k <= l
             IN  dx[k] < dy[k]

\* The order of .sort() for each two of the numbers
defaultCompare(xs) ==
    [i \in 1..Len(xs) |-> [j \in 1..Len(xs) |->
        IF DefaultLess(xs[i], xs[j]) THEN -1 ELSE IF DefaultLess(xs[j], xs[i]) THEN 1 ELSE 0]]

\* document.turns.findIndex(c => c.id === id), from 0
FindIndexById(id) ==
    IF \E i \in 1..Len(turns) : turns[i].id = id
    THEN (CHOOSE i \in 1..Len(turns) : turns[i].id = id /\ \A j \in 1..(i-1) : turns[j].id # id) - 1
    ELSE -1

\* groups.map(group => document.turns.findIndex(c => c.id === group[0].id)).sort()
FirstTurns(gs) ==
    LET found == [g \in 1..Len(gs) |-> FindIndexById(gs[g][1])]
    IN  CHOOSE f \in SortOutcomes(found, defaultCompare(found)) : TRUE

\* firstTurns.indexOf(x), from 0, or -1
IndexOf(seq, x) ==
    IF \E i \in 1..Len(seq) : seq[i] = x
    THEN (CHOOSE i \in 1..Len(seq) : seq[i] = x /\ \A j \in 1..(i-1) : seq[j] # x) - 1
    ELSE -1

\* change.round ? (change.round > document.current.round ? 1 : -1)
\*              : (change.turn > document.current.turn ? 1 : -1)
Direction(chTurn, chRound) ==
    IF chRound # None /\ chRound # 0
    THEN IF chRound > round THEN 1 ELSE -1
    ELSE IF chTurn > turn THEN 1 ELSE -1

\* A lookup with || in the place of ??: a next turn of 0 counts as missing
NextTurnOr(firstTurns, indexOfCurrent, direction) ==
    LET n == Len(firstTurns)
        k == indexOfCurrent + direction
    IN  IF indexOfCurrent # None /\ 0 <= k /\ k < n /\ firstTurns[k + 1] # 0
        THEN firstTurns[k + 1]
        ELSE IF direction = 1 THEN firstTurns[1] ELSE firstTurns[n]

\* A lookup that always loops to the start of the list
NextTurnToStart(firstTurns, indexOfCurrent, direction) ==
    LET n == Len(firstTurns)
        k == indexOfCurrent + direction
    IN  IF indexOfCurrent # None /\ 0 <= k /\ k < n
        THEN firstTurns[k + 1]
        ELSE firstTurns[1]

\* firstTurns?.[indexOfCurrent + direction] ?? firstTurns.at(direction === 1 ? 0 : -1)
\* where indexOfCurrent is undefined (here None) when document.turn is no first turn
NextTurn(firstTurns, indexOfCurrent, direction) ==
    LET n == Len(firstTurns)
        k == indexOfCurrent + direction
    IN  IF indexOfCurrent # None /\ 0 <= k /\ k < n
        THEN firstTurns[k + 1]
        ELSE IF direction = 1 THEN firstTurns[1] ELSE firstTurns[n]

\* A condition that does not read the groupSkipping setting
ShouldSkipWhateverTheSetting(chTurn) ==
    isGM /\ chTurn # None /\ settings.mode # "none"

\* The condition of the handler, up to the count of the groups (lines 428-431)
ShouldSkip(chTurn) ==
    isGM /\ chTurn # None /\ settings.groupSkipping /\ settings.mode # "none"

\* The handler on the change {turn: chTurn, round: chRound} with Ctg.groups having
\* returned g: the change afterwards, and what the handler did
groupSkipping(chTurn, chRound, g) ==
    LET same == [turn |-> chTurn, round |-> chRound, requested |-> chTurn,
                 docTurn |-> turn, wrote |-> FALSE, threw |-> FALSE,
                 firstTurns |-> <<>>, indexOfCurrent |-> None, direction |-> 0]
    IN  IF g.status = "threw" THEN [same EXCEPT !.threw = TRUE]
        ELSE IF ~ ShouldSkip(chTurn) THEN same
        ELSE IF g.status = "invalid" THEN [same EXCEPT !.threw = TRUE]
        ELSE IF ~ (Len(g.groups) > 1) THEN same
        ELSE IF \E k \in 1..Len(g.groups) : Len(g.groups[k]) = 0
        THEN [same EXCEPT !.threw = TRUE]
        ELSE LET direction == Direction(chTurn, chRound)
                 firstTurns == FirstTurns(g.groups)
                 found == IndexOf(firstTurns, turn)
                 indexOfCurrent == IF found # -1 THEN found ELSE None
             IN  [same EXCEPT !.turn = NextTurn(firstTurns, indexOfCurrent, direction),
                              !.wrote = TRUE,
                              !.firstTurns = firstTurns,
                              !.indexOfCurrent = indexOfCurrent,
                              !.direction = direction]

-----------------------------------------------------------------------------
(* The states the module starts from *)

\* The modes of the "modes" setting: none, initiative, a custom path, and the
\* mob mode that manageModes adds (line 245) and never removes
DefaultModes ==
    << <<"none", "">>, <<"initiative", "initiative">>, <<"custom", "val">>, <<"mob", "">> >>

\* A mode key that has no entry in Ctg.MODES
StaleMode == "stale"

Initiatives == { Null } \cup { Num(n) : n \in 0..MaxInitiative }

\* The values a custom path resolves to
Values ==
    { Undefined, Null, Bool(TRUE), Bool(FALSE) }
    \cup { Num(n) : n \in 0..MaxInitiative }
    \cup { Str("Goblin"), Str("Orc"), Str("10"), Str("aZ3kLp9QmN21xTy8"), Str("Qm7RtY2pLs9DfG4h") }
    \cup { Obj("x"), Obj("y"), Obj(""), Arr("x") }

\* The values the combatants of the grouping runs are grouped by
GroupValues == { Num(1), Str("1"), Str("constructor") }

Combatant(id, visible, hidden, pc, initiative, val) ==
    [id |-> id, tokenId |-> "t" \o id, visible |-> visible, hidden |-> hidden,
     hasPlayerOwner |-> pc, initiative |-> initiative, val |-> val]

NoChange ==
    [turn |-> None, round |-> None, requested |-> None, docTurn |-> None, wrote |-> FALSE,
     threw |-> FALSE, firstTurns |-> <<>>, indexOfCurrent |-> None, direction |-> 0]

NoCmp == [a |-> 0, b |-> 0, ab |-> 0, ba |-> 0]

NoRet == [called |-> FALSE, mode |-> "", status |-> "", groups |-> <<>>, read |-> FALSE]

\* No group initiative roll yet
NoRolls ==
    [called |-> FALSE, context |-> "", ids |-> <<>>, threw |-> FALSE, eligible |-> {},
     before |-> <<>>, tasks |-> <<>>]

Outputs ==
    /\ cmp = NoCmp
    /\ ret = NoRet
    /\ errors = 0
    /\ warnings = <<>>
    /\ change = NoChange
    /\ rolls = NoRolls

\* The order the combat keeps its turns in: the higher initiative first, one
\* that is not rolled (null) last, and the smaller id first among equals
TurnPrecedes(a, b) ==
    LET ia == IF a.initiative = Null THEN -1 ELSE a.initiative.n
        ib == IF b.initiative = Null THEN -1 ELSE b.initiative.n
    IN  ia > ib \/ (ia = ib /\ StrGreater(b.id, a.id))

\* Two combatants and the settings sortCombatants reads
InitSort ==
    /\ \E ia, ib \in Initiatives : \E va, vb \in Values :
          LET a == Combatant("a", TRUE, FALSE, FALSE, ia, va)
              b == Combatant("b", TRUE, FALSE, FALSE, ib, vb)
          IN  turns = IF TurnPrecedes(a, b) THEN <<a, b>> ELSE <<b, a>>
    /\ \E m \in {"initiative", "custom"} : \E sc \in BOOLEAN :
          settings = [mode |-> m, sortCombatants |-> sc, noGroupHidden |-> FALSE,
                      noGroupPCs |-> FALSE, groupSkipping |-> FALSE]
    /\ modes = DefaultModes
    /\ isGM = TRUE
    /\ matActive = FALSE
    /\ hiddenMobList = <<>>
    /\ turn = 0
    /\ round = 0
    /\ Outputs

\* Three combatants of every visibility and ownership, and the skip settings
InitGroups ==
    /\ \E f \in [ {"a", "b", "c"} -> [visible : BOOLEAN, hidden : BOOLEAN, pc : BOOLEAN,
                                       val : GroupValues] ] :
          turns = [i \in 1..3 |->
                     LET id == <<"a", "b", "c">>[i]
                     IN  Combatant(id, f[id].visible, f[id].hidden, f[id].pc, Null, f[id].val)]
    /\ \E h, p \in BOOLEAN :
          settings = [mode |-> "custom", sortCombatants |-> FALSE, noGroupHidden |-> h,
                      noGroupPCs |-> p, groupSkipping |-> FALSE]
    /\ modes = DefaultModes
    /\ isGM = TRUE
    /\ matActive = FALSE
    /\ hiddenMobList = <<>>
    /\ turn = 0
    /\ round = 0
    /\ Outputs

-----------------------------------------------------------------------------
(* The operations *)

\* Ctg.sortCombatants on the combatants at i and j of the turns, both ways round
CallSortCombatants(i, j) ==
    /\ i # j
    /\ cmp' = [a |-> i, b |-> j, ab |-> sortCombatants(turns[i], turns[j]),
               ba |-> sortCombatants(turns[j], turns[i])]
    /\ UNCHANGED <<turns, settings, modes, isGM, matActive, hiddenMobList, turn, round,
                   ret, errors, warnings, change, rolls>>

\* Ctg.groups(mode)
CallGroups(mode) ==
    /\ \E g \in groups(mode) :
          /\ ret' = [called |-> TRUE, mode |-> mode, status |-> g.status,
                     groups |-> g.groups, read |-> g.read]
          /\ errors' = g.errors
          /\ warnings' = g.warned
    /\ UNCHANGED <<turns, settings, modes, isGM, matActive, hiddenMobList, turn, round,
                   cmp, change, rolls>>

\* game.settings.set(Ctg.ID, "sortCombatants", ...) from the settings menu; what
\* the calls before it returned is of the old setting, and is dropped
ToggleSortCombatants ==
    /\ settings' = [settings EXCEPT !.sortCombatants = ~ @]
    /\ cmp' = NoCmp /\ ret' = NoRet /\ errors' = 0 /\ warnings' = <<>> /\ change' = NoChange
    /\ UNCHANGED <<turns, modes, isGM, matActive, hiddenMobList, turn, round, rolls>>

\* mob-attack-tool saves a mob of the token ids (the tokens selected, at least
\* one); what the calls before it returned is of the old mobs, and is dropped
SaveMob(ids) ==
    /\ Len(hiddenMobList) < MaxMobs
    /\ hiddenMobList' = Append(hiddenMobList, ids)
    /\ cmp' = NoCmp /\ ret' = NoRet /\ errors' = 0 /\ warnings' = <<>> /\ change' = NoChange
    /\ UNCHANGED <<turns, settings, modes, isGM, matActive, turn, round, rolls>>

\* The preUpdateCombat hook on the change {turn: chTurn, round: chRound}, with gs
\* what its call of Ctg.groups may return, and the update of the combat that
\* follows it
PreUpdateCombat(chTurn, chRound, gs) ==
    /\ \E c \in { groupSkipping(chTurn, chRound, g) : g \in gs } : change' = c
    /\ errors' = IF settings.mode \in ModeKeys THEN 0 ELSE 1
    /\ turn' = IF change'.turn # None THEN change'.turn ELSE turn
    /\ round' = IF chRound # None THEN chRound ELSE round
    /\ UNCHANGED <<turns, settings, modes, isGM, matActive, hiddenMobList, cmp, ret,
                   warnings, rolls>>

NextSort == \E i, j \in 1..Len(turns) : CallSortCombatants(i, j)

SpecSort == InitSort /\ [][NextSort]_vars

NextGroups ==
    \/ \E mode \in ModeKeys \cup { StaleMode } : CallGroups(mode)
    \/ ToggleSortCombatants

SpecGroups == InitGroups /\ [][NextGroups]_vars

\* The token ids of the mobs: of two combatants, and of a token not in combat
TokenIds == { "ta", "tb", "tx" }

RECURSIVE SeqsUpTo(_, _)
SeqsUpTo(S, n) ==
    IF n = 0 THEN { <<>> }
    ELSE LET shorter == SeqsUpTo(S, n - 1)
         IN  shorter \cup { Append(q, x) : q \in { r \in shorter : Len(r) = n - 1 }, x \in S }

\* Three combatants, mob-attack-tool active and the mob mode chosen
InitMob ==
    /\ turns = << Combatant("a", TRUE, FALSE, FALSE, Null, Undefined),
                  Combatant("b", TRUE, FALSE, FALSE, Null, Undefined),
                  Combatant("c", TRUE, FALSE, FALSE, Null, Undefined) >>
    /\ settings = [mode |-> "mob", sortCombatants |-> FALSE, noGroupHidden |-> FALSE,
                   noGroupPCs |-> FALSE, groupSkipping |-> FALSE]
    /\ modes = DefaultModes
    /\ isGM = TRUE
    /\ matActive = TRUE
    /\ hiddenMobList = <<>>
    /\ turn = 0
    /\ round = 0
    /\ Outputs

NextMob ==
    \/ \E ids \in SeqsUpTo(TokenIds, MaxMobSize) \ { <<>> } : SaveMob(ids)
    \/ CallGroups("mob")
    \/ ToggleSortCombatants

SpecMob == InitMob /\ [][NextMob]_vars

\* The values the combatants of the turn-change runs are grouped by: a group
\* tag of the selection (a random id), a name and a number
SkipValues == { Str("aZ3kLp9QmN21xTy8"), Str("Goblin"), Num(1) }

\* The initiatives of the four combatants: none rolled, or two high and two low
SkipInitiatives ==
    { [i \in 1..4 |-> Null],
      [i \in 1..4 |-> IF i <= 2 THEN Num(MaxInitiative) ELSE Num(0)] }

\* A combat without combatants, or four visible combatants in turn order, the
\* first with a group tag
InitSkip ==
    /\ \/ turns = <<>>
       \/ \E f \in [ 1..4 -> SkipValues ] : \E ini \in SkipInitiatives :
             /\ f[1] = Str("aZ3kLp9QmN21xTy8")
             /\ turns = [i \in 1..4 |->
                           Combatant(<<"a", "b", "c", "d">>[i], TRUE, FALSE, FALSE, ini[i], f[i])]
    /\ modes = DefaultModes
    /\ \E m \in (ModeKeys \ {"mob"}) \cup { StaleMode } : \E sc, gs \in BOOLEAN :
          settings = [mode |-> m, sortCombatants |-> sc, noGroupHidden |-> FALSE,
                      noGroupPCs |-> FALSE, groupSkipping |-> gs]
    /\ isGM \in BOOLEAN
    /\ matActive = FALSE
    /\ hiddenMobList = <<>>
    /\ turn = 0
    /\ round = 0
    /\ Outputs

NextSkip ==
    \E gs \in { groups(settings.mode) } :
    \E chTurn \in { None } \cup (0..(IF Len(turns) = 0 THEN 0 ELSE Len(turns) - 1)) :
    \E chRound \in { None } \cup (0..MaxRound) : PreUpdateCombat(chTurn, chRound, gs)

SpecSkip == InitSkip /\ [][NextSkip]_vars

\* The ids of the combatants of the long combat
LongIds == << "a", "b", "c", "d", "e", "f", "g", "h", "i", "j", "k", "l", "m" >>

\* A combat of MaxTurns visible combatants in turn order, of three names in a
\* row: the second name from the combatant at p on, the third from the one at q
InitLong ==
    /\ \E p, q \in 2..MaxTurns :
          /\ p < q
          /\ turns = [i \in 1..MaxTurns |->
                        Combatant(LongIds[i], TRUE, FALSE, FALSE, Null,
                                  IF i < p THEN Str("Goblin")
                                  ELSE IF i < q THEN Str("Orc") ELSE Str("undefined"))]
    /\ modes = DefaultModes
    /\ settings = [mode |-> "custom", sortCombatants |-> FALSE, noGroupHidden |-> FALSE,
                   noGroupPCs |-> FALSE, groupSkipping |-> TRUE]
    /\ isGM = TRUE
    /\ matActive = FALSE
    /\ hiddenMobList = <<>>
    /\ turn = 0
    /\ round = 0
    /\ Outputs

SpecLong == InitLong /\ [][NextSkip]_vars

-----------------------------------------------------------------------------
(* groupInitiativeWrapper: the group initiative rolls *)

\* the ids passed to a roll: at most MaxIds
MaxIds == 2

\* game.combat.turns.find(c => c.id === id): the combatant of the id
CombatantById(id) ==
    IF \E i \in 1..Len(turns) : turns[i].id = id
    THEN turns[CHOOSE i \in 1..Len(turns) : turns[i].id = id]
    ELSE NoCombatant

\* combatant.isNPC: the combatant has no player owner
IsNPC(id) == ~ CombatantById(id).hasPlayerOwner

\* The condition of the callback (lines 504-506) on a group, for the id passed
IsEligible(context, group, id) ==
    \/ context = "rollAll"
    \/ (context = "rollNPC" /\ \A k \in 1..Len(group) : IsNPC(group[k]))
    \/ (context = "roll" /\ \E k \in 1..Len(group) : group[k] = id)

\* The callbacks Ctg.groups(...).forEach starts for one id: one for each eligible
\* group, in the order of the groups, each waiting for its roll's message (or
\* rejected at once, where group[0] is undefined)
CallbacksOf(context, gs, id) ==
    LET Test(group) == IsEligible(context, group, id)
        eligible == SelectSeq(gs, Test)
    IN  [k \in 1..Len(eligible) |->
            [id |-> id, group |-> eligible[k],
             pc |-> IF Len(eligible[k]) = 0 THEN "threw" ELSE "roll", total |-> 0]]

\* ids.forEach(id => Ctg.groups(mode).forEach(async ...)) from the id at a on, with
\* sel[a] what Ctg.groups returns for it: the callbacks started, and whether the
\* loop threw (Ctg.groups threw, or returned undefined)
RECURSIVE ForEachId(_, _, _, _, _)
ForEachId(context, ids, sel, a, acc) ==
    IF a > Len(ids) THEN acc
    ELSE IF sel[a].status # "ok" THEN [acc EXCEPT !.threw = TRUE]
    ELSE ForEachId(context, ids, sel, a + 1,
                   [acc EXCEPT !.tasks = @ \o CallbacksOf(context, sel[a].groups, ids[a]),
                               !.eligible = @ \cup
                                   { sel[a].groups[g] : g \in
                                       { h \in 1..Len(sel[a].groups) :
                                           IsEligible(context, sel[a].groups[h], ids[a]) } }])

\* groupInitiativeWrapper(context, wrapped, ids) with the keybinding held, up to
\* the first await of each callback
groupInitiativeWrapper(context, ids, sel) ==
    ForEachId(context, ids, sel, 1,
              [called |-> TRUE, context |-> context, ids |-> ids, threw |-> FALSE,
               eligible |-> {}, before |-> turns, tasks |-> <<>>])

\* The turns in the order the combat keeps them (Combat#setupTurns)
SetupTurns(cs) ==
    LET c == [i \in 1..Len(cs) |-> [j \in 1..Len(cs) |->
                 IF i = j THEN 0 ELSE IF TurnPrecedes(cs[i], cs[j]) THEN -1 ELSE 1]]
    IN  CHOOSE sorted \in SortOutcomes(cs, c) : TRUE

\* game.combat.updateEmbeddedDocuments("Combatant", updates) with one update
\* {_id, initiative: total} for each member of the group
UpdateEmbeddedDocuments(group, total) ==
    SetupTurns([i \in 1..Len(turns) |->
                  IF \E k \in 1..Len(group) : group[k] = turns[i].id
                  THEN [turns[i] EXCEPT !.initiative = Num(total)]
                  ELSE turns[i]])

\* A roll of group initiative: Combat.prototype.rollAll or rollNPC (ids is then
\* the default, [""]) or rollInitiative(ids), with the keybinding held
RollGroupInitiative(context, ids) ==
    /\ ~ rolls.called
    /\ settings.mode # "none"
    /\ \E sel \in [ 1..Len(ids) -> groups(settings.mode) ] :
          rolls' = groupInitiativeWrapper(context, ids, sel)
    /\ errors' = IF settings.mode \in ModeKeys THEN 0 ELSE 1
    /\ UNCHANGED <<turns, settings, modes, isGM, matActive, hiddenMobList, turn, round,
                   cmp, ret, warnings, change>>

\* The message of callback k's roll arrives (the first await, line 510): the
\* callback builds its updates with the roll's total and sends them
MessageArrives(k, total) ==
    /\ k \in 1..Len(rolls.tasks)
    /\ rolls.tasks[k].pc = "roll"
    /\ rolls' = [rolls EXCEPT !.tasks[k].pc = "update", !.tasks[k].total = total]
    /\ UNCHANGED <<turns, settings, modes, isGM, matActive, hiddenMobList, turn, round,
                   cmp, ret, errors, warnings, change>>

\* The update of callback k is applied to the combatants (the second await, line
\* 523), and the callback ends
UpdateApplied(k) ==
    /\ k \in 1..Len(rolls.tasks)
    /\ rolls.tasks[k].pc = "update"
    /\ turns' = UpdateEmbeddedDocuments(rolls.tasks[k].group, rolls.tasks[k].total)
    /\ rolls' = [rolls EXCEPT !.tasks[k].pc = "done"]
    /\ UNCHANGED <<settings, modes, isGM, matActive, hiddenMobList, turn, round,
                   cmp, ret, errors, warnings, change>>

\* The ids of the combatants of the roll runs
RollIds == << "a", "b", "c" >>

\* Three visible combatants without initiative, of one or two names, owned by
\* players or not
InitRoll ==
    /\ \E f \in [ 1..3 -> [pc : BOOLEAN, val : { Str("Goblin"), Str("Orc") }] ] :
          /\ f[1].val = Str("Goblin")
          /\ turns = [i \in 1..3 |->
                        Combatant(RollIds[i], TRUE, FALSE, f[i].pc, Null, f[i].val)]
    /\ \E m \in { "custom", StaleMode } :
          settings = [mode |-> m, sortCombatants |-> FALSE, noGroupHidden |-> FALSE,
                      noGroupPCs |-> FALSE, groupSkipping |-> FALSE]
    /\ modes = DefaultModes
    /\ isGM = TRUE
    /\ matActive = FALSE
    /\ hiddenMobList = <<>>
    /\ turn = 0
    /\ round = 0
    /\ Outputs

NextRoll ==
    \/ \E context \in { "rollAll", "rollNPC" } : RollGroupInitiative(context, << "" >>)
    \/ \E ids \in { q \in SeqsUpTo({ RollIds[i] : i \in 1..3 }, MaxIds) :
                        Len(q) > 0 /\ \A x, y \in 1..Len(q) : x # y => q[x] # q[y] } :
          RollGroupInitiative("roll", ids)
    \/ \E k \in 1..Len(rolls.tasks) : \E total \in 1..MaxInitiative : MessageArrives(k, total)
    \/ \E k \in 1..Len(rolls.tasks) : UpdateApplied(k)

SpecRoll == InitRoll /\ [][NextRoll]_vars

-----------------------------------------------------------------------------
(* Ctg.sortCombatants: C2 - C5, under SpecSort *)

Compared == cmp.a # 0

ResolvedA == recursiveGetPropertyAsString(turns[cmp.a], PathOf(settings.mode))

ResolvedB == recursiveGetPropertyAsString(turns[cmp.b], PathOf(settings.mode))

\* C2: sortCombatants(a, b) and sortCombatants(b, a) return opposite results for
\* every pair of distinct combatants, in every branch.
C2_Antisymmetric == Compared => cmp.ab = - cmp.ba

\* C3: sortCombatants returns only -1 or 1, never 0, also when both resolved
\* values are the same plain string.
C3_NeverZero == Compared => cmp.ab \in { -1, 1 }

\* C4: with sorting enabled and both resolved values numeric, sortCombatants(a, b)
\* is -1 exactly when a's value is greater than b's, or the values are equal and
\* a.id is lexically smaller than b.id, and 1 otherwise.
C4_NumericDescending ==
    ( /\ Compared
      /\ settings.sortCombatants
      /\ IsNumeric(ResolvedA) /\ IsNumeric(ResolvedB)
      /\ ~ (TypeOf(ResolvedA) = "boolean" /\ TypeOf(ResolvedB) = "boolean") )
    => cmp.ab = IF \/ ToNumber(ResolvedA) > ToNumber(ResolvedB)
                   \/ /\ ToNumber(ResolvedA) = ToNumber(ResolvedB)
                      /\ StrGreater(turns[cmp.b].id, turns[cmp.a].id)
                THEN -1 ELSE 1

\* C5: with sorting enabled and both resolved values strings that match the
\* identifier pattern, the combatant of the higher initiative precedes:
\* sortCombatants(a, b) is -1 when a.initiative > b.initiative.
C5_IdsByInitiativeDescending ==
    ( /\ Compared
      /\ settings.sortCombatants
      /\ ResolvedA.t = "string" /\ ResolvedB.t = "string"
      /\ MatchesIdPattern(ResolvedA.s) /\ MatchesIdPattern(ResolvedB.s)
      /\ InitiativeGreater(turns[cmp.a], turns[cmp.b]) )
    => cmp.ab = -1

-----------------------------------------------------------------------------
(* Ctg.groups: C1 and C8 under SpecGroups, C10 under SpecMob *)

\* How many times the id occurs in the groups returned
Occurrences(id) ==
    Cardinality({ p \in UNION { { <<g, k>> : k \in 1..Len(ret.groups[g]) } :
                                     g \in 1..Len(ret.groups) } :
                    ret.groups[p[1]][p[2]] = id })

PathBased == ret.called /\ ret.mode \in ModeKeys /\ ~ (ret.mode = "mob" /\ matActive)

\* C1: in path-based grouping Ctg.groups places every combatant that is visible,
\* not (skip-hidden and hidden) and not (skip-PCs and player-owned) in exactly one
\* group, and every other combatant in no group, for every list and setting.
C1_Partition ==
    PathBased =>
        /\ ret.status = "ok"
        /\ \A i \in 1..Len(turns) :
              Occurrences(turns[i].id) = IF IsGrouped(turns[i]) THEN 1 ELSE 0

\* The partition of C1, for the lists in which no grouped combatant's value names
\* a property that {} inherits
C1_PartitionOfOwnKeys ==
    ( /\ PathBased
      /\ \A i \in 1..Len(turns) :
            IsGrouped(turns[i]) =>
                ToPropertyKey(recursiveGetPropertyAsString(turns[i], PathOf(ret.mode)))
                    \notin ObjectPrototypeKeys )
    => /\ ret.status = "ok"
       /\ \A i \in 1..Len(turns) :
             Occurrences(turns[i].id) = IF IsGrouped(turns[i]) THEN 1 ELSE 0

\* C8: Ctg.groups with a mode key that is not configured reports the invalid
\* mode and returns no groups, without reading or sorting any combatant.
C8_InvalidMode ==
    (ret.called /\ ret.mode \notin ModeKeys) =>
        /\ ret.status = "invalid"
        /\ ret.groups = <<>>
        /\ errors = 1
        /\ ~ ret.read

C8_Witness ==
    /\ ret.called /\ ret.mode = StaleMode /\ ret.status = "invalid"
    /\ \E i \in 1..Len(turns) : IsGrouped(turns[i])

\* The mobs that hold the token id, by their place in hiddenMobList
MobsOf(id) ==
    { m \in 1..Len(hiddenMobList) :
        \E k \in 1..Len(hiddenMobList[m]) : hiddenMobList[m][k] = id }

FirstMobOf(id) == CHOOSE m \in MobsOf(id) : \A l \in MobsOf(id) : m <= l

\* How many times the ids of the mobs repeat an id that occurred before
Repeats ==
    LET occ == { <<m, k>> \in (1..Len(hiddenMobList)) \X (1..MaxMobSize) :
                    k <= Len(hiddenMobList[m]) }
    IN  Cardinality(occ) - Cardinality({ hiddenMobList[p[1]][p[2]] : p \in occ })

GroupOf(id) == CHOOSE g \in 1..Len(ret.groups) : \E k \in 1..Len(ret.groups[g]) : ret.groups[g][k] = id

\* C10: in the mob mode each combatant is in at most one group: an id that occurs
\* in several mobs, or several times in one, is kept at its first occurrence only
\* (two combatants share a group exactly when the first mobs of their tokens are
\* the same) and dropped from the later ones with a warning, without failing.
C10_MobDedup ==
    (ret.called /\ ret.mode = "mob" /\ matActive) =>
        /\ ret.status = "ok"
        /\ Len(ret.groups) = Len(hiddenMobList)
        /\ \A i \in 1..Len(turns) :
              Occurrences(turns[i].id) = IF MobsOf(turns[i].tokenId) = {} THEN 0 ELSE 1
        /\ \A i, j \in 1..Len(turns) :
              (MobsOf(turns[i].tokenId) # {} /\ MobsOf(turns[j].tokenId) # {}) =>
                  ( GroupOf(turns[i].id) = GroupOf(turns[j].id)
                      <=> FirstMobOf(turns[i].tokenId) = FirstMobOf(turns[j].tokenId) )
        /\ Len(warnings) = Repeats
        /\ \A k \in 1..Len(warnings) : Cardinality(MobsOf(warnings[k])) >= 1

C10_Witness ==
    /\ ret.called /\ ret.mode = "mob" /\ ret.status = "ok"
    /\ Cardinality(MobsOf("ta")) = 2
    /\ Len(hiddenMobList[1]) = 2
    /\ Occurrences("a") = 1
    /\ warnings # <<>>

-----------------------------------------------------------------------------
(* The preUpdateCombat handler: C6, C7 and C9, under SpecSkip *)

\* The handler has run on a change
Handled == change.docTurn # None

\* C6: when the current turn is at position i of firstTurns (of length n > 1) and
\* the direction is d, the turn written is firstTurns[(i + d) mod n].
C6_StepsAndWraps ==
    ( /\ change.wrote
      /\ \E k \in 1..Len(change.firstTurns) : change.firstTurns[k] = change.docTurn )
    => LET n == Len(change.firstTurns)
           i == IndexOf(change.firstTurns, change.docTurn)
           d == change.direction
       IN  /\ n > 1
           /\ d \in { 1, -1 }
           /\ change.turn = change.firstTurns[((i + d + n) % n) + 1]

C6_Witness ==
    /\ change.wrote
    /\ Len(change.firstTurns) = 3
    /\ change.docTurn = change.firstTurns[3]
    /\ change.direction = 1
    /\ change.turn = change.firstTurns[1]

\* C7: when the current turn is the first turn of no group, direction +1 sets
\* the turn to the first element of firstTurns and direction -1 to the last.
C7_MidGroupAnchors ==
    ( /\ change.wrote
      /\ \A k \in 1..Len(change.firstTurns) : change.firstTurns[k] # change.docTurn )
    => /\ change.direction \in { 1, -1 }
       /\ change.turn = IF change.direction = 1
                        THEN change.firstTurns[1]
                        ELSE change.firstTurns[Len(change.firstTurns)]

C7_Witness ==
    /\ change.wrote
    /\ Len(change.firstTurns) >= 2
    /\ \A k \in 1..Len(change.firstTurns) : change.firstTurns[k] # change.docTurn
    /\ change.direction = -1
    /\ change.turn = change.firstTurns[Len(change.firstTurns)]
    /\ change.turn # change.firstTurns[1]

\* The number of groups of the active mode: of the keys of the grouped combatants
GroupCount ==
    Cardinality({ ToPropertyKey(recursiveGetPropertyAsString(turns[i], PathOf(settings.mode))) :
                    i \in { j \in 1..Len(turns) : IsGrouped(turns[j]) } })

\* A condition under which the handler is to leave the change alone
Bypassed ==
    \/ ~ settings.groupSkipping
    \/ settings.mode = "none"
    \/ ~ isGM
    \/ change.requested = None
    \/ (settings.mode \in ModeKeys /\ GroupCount <= 1)

\* C9: the handler leaves change.turn as requested when group skipping is
\* disabled, there are 0 or 1 groups, the mode is "none", the user is no GM or
\* the change carries no turn; it rewrites change.turn only when none holds.
C9_LeavesTurnWhenBypassed ==
    Handled =>
        /\ Bypassed => (change.turn = change.requested /\ ~ change.wrote)
        /\ change.wrote => ~ Bypassed

C9_Witness ==
    /\ Handled
    /\ isGM /\ settings.groupSkipping /\ settings.mode = "custom"
    /\ change.requested # None /\ change.requested # change.docTurn
    /\ Len(turns) = 4 /\ GroupCount = 1
    /\ change.turn = change.requested

-----------------------------------------------------------------------------
(* The groups returned: C11 under SpecMob *)

\* C11: every group Ctg.groups returns is non-empty, in the path-based modes and
\* in the mob mode alike, also when a mob holds only ids that an earlier mob
\* claimed, or tokens without a combatant.
C11_GroupsNonEmpty ==
    (ret.called /\ ret.status = "ok") =>
        \A g \in 1..Len(ret.groups) : Len(ret.groups[g]) > 0

\* The groups of the path-based modes are non-empty: the reducer creates a
\* property only with its first member
C11_PathGroupsNonEmpty ==
    (PathBased /\ ret.status = "ok") =>
        \A g \in 1..Len(ret.groups) : Len(ret.groups[g]) > 0

-----------------------------------------------------------------------------
(* The buckets of the reducer: C12 under SpecKeys *)

\* The values the combatants of the bucket runs are grouped by: no value and
\* the string "undefined", a number and its decimal string, two objects
KeyValues == { Undefined, Str("undefined"), Num(1), Str("1"), Obj("x"), Obj("y") }

\* Three visible combatants with values of mixed type at the custom path
InitKeys ==
    /\ \E f \in [ 1..3 -> KeyValues ] :
          turns = [i \in 1..3 |->
                     Combatant(<<"a", "b", "c">>[i], TRUE, FALSE, FALSE, Null, f[i])]
    /\ settings = [mode |-> "custom", sortCombatants |-> FALSE, noGroupHidden |-> FALSE,
                   noGroupPCs |-> FALSE, groupSkipping |-> FALSE]
    /\ modes = DefaultModes
    /\ isGM = TRUE
    /\ matActive = FALSE
    /\ hiddenMobList = <<>>
    /\ turn = 0
    /\ round = 0
    /\ Outputs

SpecKeys == InitKeys /\ [][NextGroups]_vars

\* The value the combatant is grouped by in the mode of the last call
ResolvedOf(c) == recursiveGetPropertyAsString(c, PathOf(ret.mode))

\* Some group returned holds both ids
SameGroup(x, y) ==
    \E g \in 1..Len(ret.groups) :
        /\ \E k \in 1..Len(ret.groups[g]) : ret.groups[g][k] = x
        /\ \E k \in 1..Len(ret.groups[g]) : ret.groups[g][k] = y

\* C12: in the groups a path-based Ctg.groups returns, two non-skipped combatants
\* are in the same group if and only if their resolved values are equal; no value
\* is a bucket of its own, and different values (the number 1 and the string "1",
\* no value and the string "undefined", two objects) are never in one group.
C12_SameGroupIffEqualValues ==
    (PathBased /\ ret.status = "ok") =>
        \A i, j \in 1..Len(turns) :
            (IsGrouped(turns[i]) /\ IsGrouped(turns[j])) =>
                ( SameGroup(turns[i].id, turns[j].id)
                    <=> ResolvedOf(turns[i]) = ResolvedOf(turns[j]) )

\* What the reducer does instead: the buckets are those of the property keys
\* the values become
C12_SameGroupIffEqualKeys ==
    (PathBased /\ ret.status = "ok") =>
        \A i, j \in 1..Len(turns) :
            (IsGrouped(turns[i]) /\ IsGrouped(turns[j])) =>
                ( SameGroup(turns[i].id, turns[j].id)
                    <=> ToPropertyKey(ResolvedOf(turns[i])) = ToPropertyKey(ResolvedOf(turns[j])) )

-----------------------------------------------------------------------------
(* The group initiative rolls: C13 under SpecRoll *)

\* The callbacks of the roll that rolled for the group
RollsOf(group) == { k \in 1..Len(rolls.tasks) : rolls.tasks[k].group = group }

AllDone == \A k \in 1..Len(rolls.tasks) : rolls.tasks[k].pc = "done"

InEligibleGroup(id) == \E g \in rolls.eligible : \E k \in 1..Len(g) : g[k] = id

\* What one roll for each eligible group leaves once every update is applied:
\* the group's total with each of its members, and the initiative it had with
\* every other combatant
RolledValuesHeld ==
    /\ \A k \in 1..Len(rolls.tasks) : \A m \in 1..Len(rolls.tasks[k].group) :
          CombatantById(rolls.tasks[k].group[m]).initiative = Num(rolls.tasks[k].total)
    /\ \A i \in 1..Len(rolls.before) :
          ~ InEligibleGroup(rolls.before[i].id) =>
              CombatantById(rolls.before[i].id).initiative = rolls.before[i].initiative

\* C13: in one group initiative roll (rollAll: every group; rollNPC: the groups
\* of NPCs only; roll: the groups that hold a passed id) each eligible group is
\* rolled exactly once, also when several passed ids are of the same group, and
\* once the updates are applied, in any order, every member of an eligible group
\* holds the group's one rolled value and every other combatant its initiative.
C13_EachGroupRolledOnce ==
    (rolls.called /\ ~ rolls.threw) =>
        /\ \A g \in rolls.eligible : Cardinality(RollsOf(g)) = 1
        /\ AllDone => RolledValuesHeld

\* No two of the ids passed are of the same group
IdsOfDistinctGroups ==
    \A x, y \in 1..Len(rolls.ids) :
        x # y => ~ \E g \in rolls.eligible :
                      /\ \E k \in 1..Len(g) : g[k] = rolls.ids[x]
                      /\ \E k \in 1..Len(g) : g[k] = rolls.ids[y]

\* The rolls of C13, for the ids of distinct groups
C13_RolledOnceForDistinctGroups ==
    (rolls.called /\ ~ rolls.threw /\ IdsOfDistinctGroups) =>
        /\ \A g \in rolls.eligible : Cardinality(RollsOf(g)) = 1
        /\ AllDone => RolledValuesHeld

-----------------------------------------------------------------------------
(* The list of first turns: C14 under SpecLong *)

\* The first turns after the current one
LaterFirstTurns ==
    { k \in 1..Len(change.firstTurns) : change.firstTurns[k] > change.docTurn }

\* C14: the list firstTurns the turn-change handler builds is in ascending numeric
\* order of turn index for every combat size, also with first turns of 10 or
\* more (2 and 10 give [2, 10]), so that a step forward from the first turn of a
\* group reaches the next-higher first turn.
C14_FirstTurnsAscending ==
    change.wrote =>
        /\ \A k \in 1..(Len(change.firstTurns) - 1) :
              change.firstTurns[k] < change.firstTurns[k + 1]
        /\ ( /\ change.direction = 1
             /\ \E k \in 1..Len(change.firstTurns) : change.firstTurns[k] = change.docTurn
             /\ LaterFirstTurns # {} )
           => /\ change.turn > change.docTurn
              /\ \A k \in LaterFirstTurns : change.turn <= change.firstTurns[k]

-----------------------------------------------------------------------------
(* The handler with a mode that is not configured: C15 under SpecSkip *)

\* C15: when a GM's turn change arrives with group skipping enabled and the
\* active mode is neither "none" nor a configured mode, the handler aborts the
\* skipping: it ends without raising an error on the missing list of groups, and
\* leaves change.turn as requested.
C15_InvalidModeAbortsQuietly ==
    ( /\ Handled
      /\ isGM
      /\ change.requested # None
      /\ settings.groupSkipping
      /\ settings.mode # "none"
      /\ settings.mode \notin ModeKeys )
    => /\ ~ change.threw
       /\ change.turn = change.requested

\* The part of C15 that the handler keeps: the turn requested is left alone
C15_InvalidModeLeavesTurn ==
    (Handled /\ settings.mode \notin ModeKeys) =>
        (change.turn = change.requested /\ ~ change.wrote)

====
